---- MODULE Spec2Model ----
(***************************************************************************)
(* A model of go-magic: the Go wrapper type Magic (magic.go) around a      *)
(* libmagic session handle, and the C shim (functions.c) it calls.         *)
(*                                                                         *)
(* Spec      one caller, every public method one atomic step.              *)
(* SpecConc  several callers on one session; the RWMutex, the native-call  *)
(*           windows and the finalizer are separate steps.                 *)
(* SpecOpen, SpecFlags, SpecLoad, SpecNew, SpecFd, SpecQuery, SpecErr,     *)
(* SpecErrConc and SpecRace each exercise one part over a wider range of   *)
(* inputs; each is introduced where it is defined.                         *)
(*                                                                         *)
(* libmagic itself is outside the repository: what a native call returns   *)
(* is drawn from small sets (the `nd' parameters below).                   *)
(***************************************************************************)
EXTENDS Integers, Sequences, FiniteSets, TLC

VARIABLES
    mgc,        \* the Go struct `magic': flags, paths, cookie, errors, loaded (autoload is
                \* read by New alone and is kept there)
    native,     \* the libmagic session behind the cookie: live, frees, flags, err
    finalizer,  \* TRUE while runtime.SetFinalizer(m, (*magic).close) is armed
    phase,      \* "init" before New, "live" while the caller holds the session, "dropped" after
    env,        \* the process: the value of MAGIC; the open descriptors above stderr (fds),
                \* those with FD_CLOEXEC (cloexec) and those that refer to the terminal
                \* (tty); what descriptor 2 refers to (stderr); each caller's save_t (save)
                \* and its locals inside flagsSaveAndRestore (local)
    build,      \* the installed magic.h: whether it defines MAGIC_EXTENSION
    last,       \* the outcome of the latest method call
    rw,         \* the session's sync.RWMutex
    pc,         \* SpecConc: where each caller is in its current method
    op          \* SpecConc: the method each caller is running

vars == <<mgc, native, finalizer, phase, env, build, last, rw, pc, op>>

-----------------------------------------------------------------------------
(* Bounds of the model. *)

MaxFiles == 2       \* the longest file list given to Load / WithFiles
MaxOptions == 1     \* the longest option list given to New
MaxFrees == 2       \* magic_close calls counted before the model stops counting
MaxNewOptions == 2     \* SpecNew: the options one New is given
MaxFlagValue == 1055   \* SpecFlags: SetFlags is tried with every value up to it
MaxFd == 5             \* SpecFd: the highest descriptor the process can have open
MaxBufferLen == 1      \* SpecQuery: the longest buffer given to Buffer
MaxMatches == 2        \* SpecQuery: the matches libmagic finds for one buffer

-----------------------------------------------------------------------------
(* Program constants. *)

NULL == 0           \* a nil cookie / NULL pointer
NONE == 0
MIME_TYPE == 16
CONTINUE == 32
RAW == 256
ERROR == 512
MAGIC_EXTENSION == 16777216
NO_CHECK_BUILTIN == 8368128

STDERR_FILENO == 2

EBADF == 9
ENOMEM == 12
EFAULT == 14
EINVAL == 22
EOVERFLOW == 75
ENOSYS == 38

\* A NULL char pointer, as opposed to any Go or C string.
CNULL == "<NULL>"

\* common.h: MAGIC_EXTENSION is -1 when the installed magic.h does not define it.
EXTENSION == IF build.extension THEN MAGIC_EXTENSION ELSE -1

-----------------------------------------------------------------------------
(* Bit operations on flag masks. *)

RECURSIVE NatAnd(_, _)
NatAnd(a, b) ==
    IF a = 0 \/ b = 0 THEN 0
    ELSE (IF a % 2 = 1 /\ b % 2 = 1 THEN 1 ELSE 0) + 2 * NatAnd(a \div 2, b \div 2)

\* Two's complement: -1 has every bit set.
And(a, b) == IF b = -1 THEN a ELSE IF a = -1 THEN b ELSE NatAnd(a, b)

Or(a, b) == a + b - NatAnd(a, b)

-----------------------------------------------------------------------------
(* Path strings are sequences of one-character strings. *)

Delim == ":"

RECURSIVE Join(_)
\* strings.Join(files, ":")
Join(files) ==
    IF Len(files) = 0 THEN <<>>
    ELSE IF Len(files) = 1 THEN files[1]
    ELSE files[1] \o <<Delim>> \o Join(Tail(files))

RECURSIVE SplitFrom(_, _)
\* strings.Split(s, ":"), with `cur' the field being read
SplitFrom(s, cur) ==
    IF Len(s) = 0 THEN <<cur>>
    ELSE IF Head(s) = Delim THEN <<cur>> \o SplitFrom(Tail(s), <<>>)
    ELSE SplitFrom(Tail(s), Append(cur, Head(s)))

Split(s) == SplitFrom(s, <<>>)

FileNames == {<<"a">>, <<"b", ":", "c">>}
DefaultPath == <<"d">>
EnvPaths == {<<>>, <<"e">>}

FileLists == UNION {[1..k -> FileNames] : k \in 0..MaxFiles}

\* magic_getpath(NULL, 0): the MAGIC environment variable, or the built-in default
magic_getpath_wrapper == IF env.MAGIC # <<>> THEN env.MAGIC ELSE DefaultPath

-----------------------------------------------------------------------------
(* Errors. *)

Err(code, msg) == [code |-> code, msg |-> msg]
NoError == Err(0, "<nil>")

\* An error value that is not of type *Error (errors.New, a runtime.Error)
Foreign(msg) == [msg |-> msg]

\* The dynamic type of a non-nil error is *Error.
IsError(e) == DOMAIN e = {"code", "msg"}

\* (e *Error).Error() and the Error() of a foreign error
ErrorString(e) == IF IsError(e) THEN "magic: " \o e.msg ELSE e.msg

NotOpen == Err(EFAULT, "Magic library is not open")
NotLoaded == Err(-1, "Magic database not loaded")

\* What libmagic can hold as its error state: a message (or NULL) and an errno.
NoNativeError == [msg |-> CNULL, errno |-> 0]
NativeErrors ==
    { NoNativeError,
      [msg |-> "", errno |-> 0],
      [msg |-> "(null)", errno |-> 0],
      [msg |-> "could not find any valid magic files!", errno |-> EBADF] }

verifyOpenAlways(m) == NoError

verifyOpen(m) ==
    IF m.cookie # NULL THEN NoError ELSE NotOpen

verifyLoadedAlways(m) == NoError

verifyLoadedField(m) == IF m.loaded THEN NoError ELSE NotLoaded

verifyLoaded(m) ==
    IF verifyOpen(m) = NoError /\ m.loaded THEN NoError ELSE NotLoaded

magic_error_verbatim(n) ==
    IF n.err.msg # CNULL
    THEN [err |-> Err(n.err.errno, n.err.msg), calls |-> 2]
    ELSE [err |-> Err(-1, "an unknown error has occurred"), calls |-> 1]

\* (m *magic) error(): two native calls when there is a usable message, else one
magic_error(n) ==
    IF n.err.msg # CNULL
    THEN IF n.err.msg = "" \/ n.err.msg = "(null)"
         THEN [err |-> Err(-1, "empty or invalid error message"), calls |-> 1]
         ELSE [err |-> Err(n.err.errno, n.err.msg), calls |-> 2]
    ELSE [err |-> Err(-1, "an unknown error has occurred"), calls |-> 1]

-----------------------------------------------------------------------------
(* libmagic and the C shim. A native session is                             *)
(*   [live, frees, flags, err]: allocated and not yet closed, the number of *)
(*   magic_close calls it received, ms->flags, and its error state.         *)

FreshNative == [live |-> TRUE, frees |-> 0, flags |-> NONE, err |-> NoNativeError]
NoNative == [live |-> FALSE, frees |-> 0, flags |-> NONE, err |-> NoNativeError]

\* magic_close(ms)
magic_close_wrapper(n) ==
    [n EXCEPT !.live = FALSE,
              !.frees = IF n.frees < MaxFrees THEN n.frees + 1 ELSE n.frees]

magic_setflags_unchecked(n, flags) == [n |-> [n EXCEPT !.flags = flags], errno |-> 0]

\* functions.c: the range check, then magic_setflags(ms, flags)
magic_setflags_wrapper(n, flags) ==
    IF flags < NONE \/ flags > NO_CHECK_BUILTIN
    THEN [n |-> n, errno |-> EINVAL]
    ELSE [n |-> [n EXCEPT !.flags = flags], errno |-> 0]

\* What a load, compile or check can do: succeed, or fail leaving an error state.
LoadND == {[ok |-> TRUE, err |-> NoNativeError]} \cup
          {[ok |-> FALSE, err |-> e] : e \in NativeErrors}

\* magic_load / magic_load_buffers / magic_compile / magic_check
magic_load_wrapper(n, nd) == [n EXCEPT !.err = nd.err]

\* What a query can return: a string, or NULL with an error state.
Sentinels == {"", "(null)", "???"}
Results == Sentinels \cup {"PNG image data"}
QueryND == {[res |-> r, err |-> NoNativeError] : r \in Results} \cup
           {[res |-> CNULL, err |-> e] : e \in NativeErrors}

\* magic_file / magic_buffer / magic_descriptor on the session
magic_query(n, nd) == [n |-> [n EXCEPT !.err = nd.err], cstring |-> nd.res]

magic_descriptor_noerrno(n, broken, fdOpen, closesFd, nd) ==
    [n |-> magic_query(n, nd).n, cstring |-> magic_query(n, nd).cstring, errno |-> 0,
     queried |-> TRUE]

\* functions.c magic_descriptor_wrapper. broken: compiled with HAVE_BROKEN_MAGIC;
\* fdOpen: the caller's descriptor is open; closesFd: this libmagic closes the
\* descriptor it is given.
magic_descriptor_wrapper(n, broken, fdOpen, closesFd, nd) ==
    IF broken
    THEN IF ~fdOpen
         THEN \* safe_dup fails
              [n |-> n, cstring |-> CNULL, errno |-> EBADF, queried |-> FALSE]
         ELSE LET q == magic_query(n, nd)
              IN  \* check_fd(dup) clears errno, and sets EBADF if the dup is closed
                  [n |-> q.n, cstring |-> q.cstring,
                   errno |-> IF closesFd THEN EBADF ELSE 0, queried |-> TRUE]
    ELSE LET q == magic_query(n, nd)
         IN  [n |-> q.n, cstring |-> q.cstring,
              errno |-> IF ~fdOpen THEN EBADF
                        ELSE IF q.cstring = CNULL THEN nd.err.errno ELSE 0,
              queried |-> TRUE]

-----------------------------------------------------------------------------
(* The methods of Magic. Each takes the struct m and the native session n   *)
(* and yields the new m and n, the error and value returned, the number of  *)
(* shim calls made on the cookie (calls) and what the native query gave     *)
(* (nres, CNULL when there was no query).                                   *)

Out(m, n, err, calls) ==
    [m |-> m, n |-> n, err |-> err, calls |-> calls,
     str |-> "", num |-> 0, list |-> <<>>, nres |-> CNULL, qflags |-> -1]

\* The body of close() once the cookie was found not nil: the native release,
\* then the two fields cleared.
release(m, n) ==
    Out([m EXCEPT !.paths = <<>>, !.cookie = NULL], magic_close_wrapper(n), NoError, 1)

closeUnguarded(m, n) == release(m, n)

\* (m *magic) close(), without the SetFinalizer(m, nil) that follows
close(m, n) ==
    IF m.cookie # NULL THEN release(m, n) ELSE Out(m, n, NoError, 0)

PathsCached(m, n) ==
    IF verifyOpen(m) # NoError THEN Out(m, n, verifyOpen(m), 0)
    ELSE IF Len(m.paths) > 0
         THEN [list |-> m.paths] @@ Out(m, n, NoError, 0)
         ELSE [list |-> Split(magic_getpath_wrapper)] @@ Out(m, n, NoError, 0)

\* Magic.Paths
Paths(m, n) ==
    IF verifyOpen(m) # NoError THEN Out(m, n, verifyOpen(m), 0)
    ELSE IF Len(m.paths) > 0 /\ env.MAGIC = <<>>
         THEN [list |-> m.paths] @@ Out(m, n, NoError, 0)
         ELSE [list |-> Split(magic_getpath_wrapper)] @@ Out(m, n, NoError, 0)

\* The outcome of magic_getparam_wrapper / magic_setparam_wrapper, as errno.
ParamND == {0, EINVAL, EOVERFLOW, ENOSYS}

\* Magic.Parameter
Parameter(m, n, errno) ==
    IF verifyOpen(m) # NoError THEN [num |-> -1] @@ Out(m, n, verifyOpen(m), 0)
    ELSE IF errno # 0
         THEN IF errno = EINVAL
              THEN [num |-> -1] @@
                   Out(m, n, Err(EINVAL, "unknown or invalid parameter specified"), 1)
              ELSE [num |-> -1] @@ Out(m, n, magic_error(n).err, 1 + magic_error(n).calls)
         ELSE [num |-> 1] @@ Out(m, n, NoError, 1)

\* Magic.SetParameter
SetParameter(m, n, errno) ==
    IF verifyOpen(m) # NoError THEN Out(m, n, verifyOpen(m), 0)
    ELSE IF errno = 0 THEN Out(m, n, NoError, 1)
    ELSE IF errno = EINVAL
         THEN Out(m, n, Err(EINVAL, "unknown or invalid parameter specified"), 1)
    ELSE IF errno = EOVERFLOW
         THEN Out(m, n, Err(EOVERFLOW, "invalid parameter value specified"), 1)
    ELSE Out(m, n, magic_error(n).err, 1 + magic_error(n).calls)

\* Magic.Flags: the native getter, or the cached value when the getter is ENOSYS.
\* getflags: this build's magic_getflags_wrapper reaches libmagic.
Flags(m, n, getflags) ==
    IF verifyOpen(m) # NoError THEN [num |-> -1] @@ Out(m, n, verifyOpen(m), 0)
    ELSE IF ~getflags
         THEN [num |-> m.flags] @@ Out(m, n, NoError, 1)
         ELSE [num |-> n.flags] @@ Out(m, n, NoError, 1)

SetFlagsUncached(m, n, flags) ==
    IF verifyOpen(m) # NoError THEN Out(m, n, verifyOpen(m), 0)
    ELSE Out(m, magic_setflags_wrapper(n, flags).n, NoError, 1)

\* Magic.SetFlags
SetFlags(m, n, flags) ==
    IF verifyOpen(m) # NoError THEN Out(m, n, verifyOpen(m), 0)
    ELSE LET r == magic_setflags_wrapper(n, flags)
         IN  IF r.errno # 0
             THEN IF r.errno = EINVAL
                  THEN Out(m, r.n, Err(EINVAL, "unknown or invalid flag specified"), 1)
                  ELSE Out(m, r.n, magic_error(r.n).err, 1 + magic_error(r.n).calls)
             ELSE Out([m EXCEPT !.flags = flags], r.n, NoError, 1)

RECURSIVE Log2(_)
\* int(math.Log2(float64(i))) for i >= 1
Log2(i) == IF i <= 1 THEN 0 ELSE 1 + Log2(i \div 2)

RECURSIVE Pow2(_)
Pow2(k) == IF k = 0 THEN 1 ELSE 2 * Pow2(k - 1)

RECURSIVE FlagBits(_)
\* the loop of FlagsSlice: the highest bit first
FlagBits(i) == IF i <= 0 THEN <<>> ELSE <<Pow2(Log2(i))>> \o FlagBits(i - Pow2(Log2(i)))

RECURSIVE Insert(_, _)
Insert(x, s) ==
    IF Len(s) = 0 THEN <<x>>
    ELSE IF x <= Head(s) THEN <<x>> \o s ELSE <<Head(s)>> \o Insert(x, Tail(s))

RECURSIVE SortInts(_)
\* sort.Ints
SortInts(s) == IF Len(s) = 0 THEN <<>> ELSE Insert(Head(s), SortInts(Tail(s)))

FlagsSliceUnsorted(m, n) ==
    IF verifyOpen(m) # NoError THEN Out(m, n, verifyOpen(m), 0)
    ELSE [list |-> FlagBits(m.flags)] @@ Out(m, n, NoError, 0)

\* Magic.FlagsSlice
FlagsSlice(m, n) ==
    IF verifyOpen(m) # NoError THEN Out(m, n, verifyOpen(m), 0)
    ELSE IF m.flags = 0 THEN [list |-> <<0>>] @@ Out(m, n, NoError, 0)
    ELSE [list |-> SortInts(FlagBits(m.flags))] @@ Out(m, n, NoError, 0)

LoadNoPaths(m, n, files, nd) ==
    IF verifyOpen(m) # NoError THEN Out(m, n, verifyOpen(m), 0)
    ELSE IF ~nd.ok
         THEN Out([m EXCEPT !.paths = <<>>, !.loaded = FALSE], magic_load_wrapper(n, nd),
                  magic_error(magic_load_wrapper(n, nd)).err,
                  1 + magic_error(magic_load_wrapper(n, nd)).calls)
         ELSE Out([m EXCEPT !.paths = <<>>, !.loaded = TRUE], magic_load_wrapper(n, nd),
                  NoError, 1)

\* Magic.Load
Load(m, n, files, nd) ==
    IF verifyOpen(m) # NoError THEN Out(m, n, verifyOpen(m), 0)
    ELSE LET m1 == [m EXCEPT !.paths = <<>>]
             cFiles == IF Len(files) > 0 THEN Join(files) ELSE magic_getpath_wrapper
             n1 == magic_load_wrapper(n, nd)
         IN  IF ~nd.ok
             THEN Out([m1 EXCEPT !.loaded = FALSE], n1,
                      magic_error(n1).err, 1 + magic_error(n1).calls)
             ELSE Out([m1 EXCEPT !.loaded = TRUE, !.paths = Split(cFiles)], n1, NoError, 1)

LoadBuffersKeepsPaths(m, n, nd) ==
    IF verifyOpen(m) # NoError THEN Out(m, n, verifyOpen(m), 0)
    ELSE LET n1 == magic_load_wrapper(n, nd)
         IN  IF ~nd.ok
             THEN IF n1.err.msg # CNULL
                  THEN Out([m EXCEPT !.loaded = FALSE], n1, Err(-1, n1.err.msg), 2)
                  ELSE Out([m EXCEPT !.loaded = FALSE], n1,
                           Err(-1, "unable to load Magic database"), 2)
             ELSE Out([m EXCEPT !.loaded = TRUE], n1, NoError, 1)

\* Magic.LoadBuffers
LoadBuffers(m, n, nd) ==
    IF verifyOpen(m) # NoError THEN Out(m, n, verifyOpen(m), 0)
    ELSE LET m1 == [m EXCEPT !.paths = <<>>]
             n1 == magic_load_wrapper(n, nd)
         IN  IF ~nd.ok
             THEN IF n1.err.msg # CNULL
                  THEN Out([m1 EXCEPT !.loaded = FALSE], n1, Err(-1, n1.err.msg), 2)
                  ELSE Out([m1 EXCEPT !.loaded = FALSE], n1,
                           Err(-1, "unable to load Magic database"), 2)
             ELSE Out([m1 EXCEPT !.loaded = TRUE], n1, NoError, 1)

\* Magic.Compile and Magic.Check
Compile(m, n, nd) ==
    IF verifyOpen(m) # NoError THEN Out(m, n, verifyOpen(m), 0)
    ELSE LET n1 == magic_load_wrapper(n, nd)
         IN  IF ~nd.ok
             THEN Out(m, n1, magic_error(n1).err, 1 + magic_error(n1).calls)
             ELSE Out(m, n1, NoError, 1)

flagsSaveNoRaw(m, n) ==
    LET forced == IF m.errors THEN Or(m.flags, ERROR) ELSE m.flags
        ok == And(forced, CONTINUE) # 0 \/ And(forced, ERROR) # 0
    IN  [flags |-> m.flags, ok |-> ok,
         n |-> IF ok THEN magic_setflags_wrapper(n, forced).n ELSE n,
         calls |-> IF ok THEN 1 ELSE 0]

flagsSaveAlways(m, n) ==
    LET forced == IF m.errors THEN Or(Or(m.flags, RAW), ERROR) ELSE Or(m.flags, RAW)
    IN  [flags |-> m.flags, ok |-> TRUE,
         n |-> magic_setflags_wrapper(n, forced).n, calls |-> 1]

\* flagsSaveAndRestore, up to the call of f: the flags the query runs under.
\* `flags' is the saved value; mgc.flags is back to it before f runs.
flagsSave(m, n) ==
    LET flags == m.flags
        forced == IF m.errors THEN Or(Or(m.flags, RAW), ERROR) ELSE Or(m.flags, RAW)
        ok == And(forced, CONTINUE) # 0 \/ And(forced, ERROR) # 0
    IN  [flags |-> flags, ok |-> ok,
         n |-> IF ok THEN magic_setflags_wrapper(n, forced).n ELSE n,
         calls |-> IF ok THEN 1 ELSE 0]

\* flagsSaveAndRestore, the deferred function: it runs after f, when mgc.flags
\* already holds the saved value again.
flagsRestore(m, n, s) ==
    IF s.ok /\ s.flags > 0
    THEN [n |-> magic_setflags_wrapper(n, m.flags).n, calls |-> 1]
    ELSE [n |-> n, calls |-> 0]

errorOrStringAny(m, n, cString) ==
    IF cString = CNULL
    THEN [err |-> Err(-1, "unknown result or nil pointer"), str |-> "", calls |-> 0]
    ELSE [err |-> NoError, str |-> cString, calls |-> 0]

\* errorOrString, in the order of the source: a non-empty string is returned
\* before it is compared with the sentinels.
errorOrString(m, n, cString) ==
    IF cString = CNULL
    THEN [err |-> Err(-1, "unknown result or nil pointer"), str |-> "", calls |-> 0]
    ELSE IF cString # ""
         THEN [err |-> NoError, str |-> cString, calls |-> 0]
    ELSE IF cString = "???" \/ cString = "(null)"
         THEN IF And(m.flags, EXTENSION) # 0
              THEN [err |-> NoError, str |-> "", calls |-> 0]
              ELSE [err |-> Err(-1, "empty or invalid result"), str |-> "", calls |-> 0]
    ELSE [err |-> magic_error(n).err, str |-> "", calls |-> magic_error(n).calls]

\* The return of a query method from (string, error) and the native result.
QueryOut(m, n, r, calls, nres, qflags) ==
    [str |-> r.str, nres |-> nres, qflags |-> qflags] @@ Out(m, n, r.err, calls + r.calls)

FileAsBuffer(m, n, nd) ==
    IF verifyOpen(m) # NoError THEN Out(m, n, verifyOpen(m), 0)
    ELSE IF verifyLoaded(m) # NoError THEN Out(m, n, verifyLoaded(m), 0)
    ELSE LET s == flagsSave(m, n)
             q == magic_query(s.n, nd)
             r == flagsRestore(m, q.n, s)
         IN  QueryOut(m, r.n, errorOrString(m, r.n, q.cstring),
                      s.calls + 1 + r.calls, q.cstring, s.n.flags)

\* Magic.File
File(m, n, nd) ==
    IF verifyOpen(m) # NoError THEN Out(m, n, verifyOpen(m), 0)
    ELSE IF verifyLoaded(m) # NoError THEN Out(m, n, verifyLoaded(m), 0)
    ELSE LET s == flagsSave(m, n)
             q == magic_query(s.n, nd)
             r == flagsRestore(m, q.n, s)
             calls == s.calls + 1 + r.calls
         IN  IF q.cstring = CNULL
             THEN IF m.errors \/ And(m.flags, ERROR) # 0
                  THEN QueryOut(m, r.n, [err |-> magic_error(r.n).err, str |-> "",
                                         calls |-> magic_error(r.n).calls],
                                calls, q.cstring, s.n.flags)
                  ELSE QueryOut(m, r.n, errorOrString(m, r.n, r.n.err.msg),
                                calls + 1, q.cstring, s.n.flags)
             ELSE QueryOut(m, r.n, errorOrString(m, r.n, q.cstring),
                           calls, q.cstring, s.n.flags)

\* Magic.Buffer
Buffer(m, n, nd) ==
    IF verifyOpen(m) # NoError THEN Out(m, n, verifyOpen(m), 0)
    ELSE IF verifyLoaded(m) # NoError THEN Out(m, n, verifyLoaded(m), 0)
    ELSE LET s == flagsSave(m, n)
             q == magic_query(s.n, nd)
             r == flagsRestore(m, q.n, s)
         IN  QueryOut(m, r.n, errorOrString(m, r.n, q.cstring),
                      s.calls + 1 + r.calls, q.cstring, s.n.flags)

\* Magic.Descriptor
Descriptor(m, n, broken, fdOpen, closesFd, nd) ==
    IF verifyOpen(m) # NoError THEN Out(m, n, verifyOpen(m), 0)
    ELSE IF verifyLoaded(m) # NoError THEN Out(m, n, verifyLoaded(m), 0)
    ELSE LET s == flagsSave(m, n)
             q == magic_descriptor_wrapper(s.n, broken, fdOpen, closesFd, nd)
             r == flagsRestore(m, q.n, s)
             calls == s.calls + 1 + r.calls
             nres == IF q.queried THEN q.cstring ELSE CNULL
         IN  IF q.errno = EBADF
             THEN QueryOut(m, r.n, [err |-> Err(EBADF, "bad file descriptor"), str |-> "",
                                    calls |-> 0],
                           calls, nres, s.n.flags)
             ELSE QueryOut(m, r.n, errorOrString(m, r.n, q.cstring),
                           calls, nres, s.n.flags)

-----------------------------------------------------------------------------
(* New and its options. *)

OkND == [ok |-> TRUE, err |-> NoNativeError]

Options ==
    {[kind |-> k, files |-> <<>>, nd |-> OkND] : k \in {"DoNotStopOnErrors", "DisableAutoload"}}
    \cup {o \in [kind : {"WithFiles"}, files : FileLists, nd : LoadND] :
            \* a failing load ignores the list: one list stands for all
            o.nd.ok \/ o.files = <<>>}
    \cup {[kind |-> "WithBuffers", files |-> <<>>, nd |-> d] : d \in LoadND}

OptionLists == UNION {[1..k -> Options] : k \in 0..MaxOptions}

\* One Option applied to the session. autoload is the struct's field of that
\* name, which New alone reads.
applyOption(m, n, autoload, o) ==
    IF o.kind = "DoNotStopOnErrors"
    THEN [autoload |-> autoload] @@ Out([m EXCEPT !.errors = FALSE], n, NoError, 0)
    ELSE IF o.kind = "DisableAutoload"
    THEN [autoload |-> FALSE] @@ Out(m, n, NoError, 0)
    ELSE IF o.kind = "WithFiles"
    THEN [autoload |-> autoload] @@ Load(m, n, o.files, o.nd)
    ELSE [autoload |-> autoload] @@ LoadBuffers(m, n, o.nd)

RECURSIVE applyOptions(_, _, _, _, _)
\* The option loop of New: it stops at the first option that fails.  applied
\* counts the options that were called.
applyOptions(m, n, autoload, options, calls) ==
    IF Len(options) = 0
    THEN [autoload |-> autoload, applied |-> 0] @@ Out(m, n, NoError, calls)
    ELSE LET r == applyOption(m, n, autoload, Head(options))
         IN  IF r.err # NoError
             THEN [applied |-> 1] @@ [r EXCEPT !.calls = calls + r.calls]
             ELSE LET t == applyOptions(r.m, r.n, r.autoload, Tail(options),
                                        calls + r.calls)
                  IN  [t EXCEPT !.applied = @ + 1]

\* open(): the struct as allocated
opened == [flags |-> NONE, paths |-> <<>>, cookie |-> 1, errors |-> TRUE, loaded |-> FALSE]

unopened == [flags |-> NONE, paths |-> <<>>, cookie |-> NULL, errors |-> TRUE, loaded |-> FALSE]

NewKeepsHandle(noAutoload, noStop, options, nd) ==
    LET m0 == [opened EXCEPT !.errors = ~noStop]
        r == applyOptions(m0, FreshNative, ~noAutoload, options, 1)
    IN  IF r.err # NoError
        THEN [armed |-> TRUE, given |-> FALSE, applied |-> r.applied,
              autoloaded |-> FALSE] @@ Out(r.m, r.n, r.err, r.calls)
        ELSE IF r.autoload /\ ~r.m.loaded
             THEN LET l == Load(r.m, r.n, <<>>, nd)
                  IN  [armed |-> TRUE, given |-> l.err = NoError, applied |-> r.applied,
                       autoloaded |-> TRUE] @@ Out(l.m, l.n, l.err, r.calls + l.calls)
             ELSE [armed |-> TRUE, given |-> TRUE, applied |-> r.applied,
                   autoloaded |-> FALSE] @@ Out(r.m, r.n, NoError, r.calls)

NewAlwaysLoads(noAutoload, noStop, options, nd) ==
    LET m0 == [opened EXCEPT !.errors = ~noStop]
        r == applyOptions(m0, FreshNative, ~noAutoload, options, 1)
    IN  IF r.err # NoError
        THEN LET c == close(r.m, r.n)
             IN  [armed |-> FALSE, given |-> FALSE, applied |-> r.applied,
                  autoloaded |-> FALSE] @@ Out(c.m, c.n, r.err, r.calls + c.calls)
        ELSE LET l == Load(r.m, r.n, <<>>, nd)
             IN  [armed |-> TRUE, given |-> l.err = NoError, applied |-> r.applied,
                  autoloaded |-> TRUE] @@ Out(l.m, l.n, l.err, r.calls + l.calls)

\* New, after open() succeeded. The result also tells whether the finalizer is
\* still armed (armed), whether the caller received the session (given), how
\* many options were called (applied) and whether the default database was
\* tried (autoloaded).
New(noAutoload, noStop, options, nd) ==
    LET m0 == [opened EXCEPT !.errors = ~noStop]
        r == applyOptions(m0, FreshNative, ~noAutoload, options, 1)
    IN  IF r.err # NoError
        THEN LET c == close(r.m, r.n)
             IN  [armed |-> FALSE, given |-> FALSE, applied |-> r.applied,
                  autoloaded |-> FALSE] @@ Out(c.m, c.n, r.err, r.calls + c.calls)
        ELSE IF r.autoload /\ ~r.m.loaded
             THEN LET l == Load(r.m, r.n, <<>>, nd)
                  IN  [armed |-> TRUE, given |-> l.err = NoError, applied |-> r.applied,
                       autoloaded |-> TRUE] @@ Out(l.m, l.n, l.err, r.calls + l.calls)
             ELSE [armed |-> TRUE, given |-> TRUE, applied |-> r.applied,
                   autoloaded |-> FALSE] @@ Out(r.m, r.n, NoError, r.calls)

-----------------------------------------------------------------------------
(* The state machine. *)

Callers == {1, 2}

\* flags and ok of flagsSaveAndRestore before it runs
NoLocal == [flags |-> NONE, ok |-> FALSE]

\* save_t as suppress_error_output initialises it
NoSave == [old_fd |-> -1, new_fd |-> -1, status |-> -1]

Builds == [extension : BOOLEAN]

\* The flag values callers pass to SetFlags.
FlagInputs == {NONE, MIME_TYPE, CONTINUE, ERROR, MAGIC_EXTENSION, -1}

NoLast ==
    [op |-> "none", open |-> FALSE, loaded |-> FALSE, err |-> NoError, calls |-> 0,
     str |-> "", num |-> 0, list |-> <<>>, nres |-> CNULL, qflags |-> -1, arg |-> <<>>]

\* What the caller saw of the call `name' that produced r, given the state before.
Seen(name, r) ==
    [op |-> name, open |-> mgc.cookie # NULL, loaded |-> mgc.cookie # NULL /\ mgc.loaded,
     err |-> r.err, calls |-> r.calls, str |-> r.str, num |-> r.num, list |-> r.list,
     nres |-> r.nres, qflags |-> r.qflags,
     arg |-> IF "arg" \in DOMAIN r THEN r.arg ELSE <<>>]

Init ==
    /\ mgc = unopened
    /\ native = NoNative
    /\ finalizer = FALSE
    /\ phase = "init"
    /\ env \in {[MAGIC |-> p, fds |-> {}, cloexec |-> {}, tty |-> {}, stderr |-> "tty",
                   save |-> [c \in Callers |-> NoSave],
                   local |-> [c \in Callers |-> NoLocal]] : p \in EnvPaths}
    /\ build \in Builds
    /\ last = NoLast
    /\ rw = [writer |-> 0, readers |-> {}]
    /\ pc = [c \in Callers |-> "idle"]
    /\ op = [c \in Callers |-> "none"]

Commit(name, r) ==
    /\ mgc' = r.m
    /\ native' = r.n
    /\ last' = Seen(name, r)

Idle == UNCHANGED <<rw, pc, op>>

\* New(options...): open() fails, or the session is built.
DoNew ==
    /\ phase = "init"
    /\ \/ /\ last' = [NoLast EXCEPT !.op = "New",
                                   !.err = Err(ENOMEM, "failed to initialize Magic library"),
                                   !.calls = 1]
          /\ phase' = "dropped"
          /\ UNCHANGED <<mgc, native, finalizer>>
       \/ \E noAutoload \in BOOLEAN, noStop \in BOOLEAN, options \in OptionLists, nd \in LoadND :
            LET r == New(noAutoload, noStop, options, nd)
            IN  /\ Commit("New", r)
                /\ finalizer' = r.armed
                /\ phase' = IF r.given THEN "live" ELSE "dropped"
    /\ UNCHANGED <<env, build>>
    /\ Idle

Frame == UNCHANGED <<finalizer, phase, env, build>> /\ Idle

DoClose ==
    /\ phase = "live"
    /\ Commit("Close", close(mgc, native))
    /\ finalizer' = FALSE
    /\ UNCHANGED <<phase, env, build>>
    /\ Idle

DoPaths == phase = "live" /\ Commit("Paths", Paths(mgc, native)) /\ Frame

DoParameter ==
    /\ phase = "live"
    /\ \E errno \in ParamND : Commit("Parameter", Parameter(mgc, native, errno))
    /\ Frame

DoSetParameter ==
    /\ phase = "live"
    /\ \E errno \in ParamND : Commit("SetParameter", SetParameter(mgc, native, errno))
    /\ Frame

\* Whether the getter is compiled in decides the value returned and nothing
\* else, so it is drawn with the call.
DoFlags ==
    /\ phase = "live"
    /\ \E getflags \in BOOLEAN : Commit("Flags", Flags(mgc, native, getflags))
    /\ Frame

DoSetFlags ==
    /\ phase = "live"
    /\ \E flags \in FlagInputs :
         Commit("SetFlags", [arg |-> <<flags>>] @@ SetFlags(mgc, native, flags))
    /\ Frame

DoFlagsSlice == phase = "live" /\ Commit("FlagsSlice", FlagsSlice(mgc, native)) /\ Frame

DoLoad ==
    /\ phase = "live"
    /\ \E nd \in LoadND, files \in FileLists :
         \* a failing load ignores the list: one list stands for all
         /\ ~nd.ok => files = <<>>
         /\ Commit("Load", [arg |-> files] @@ Load(mgc, native, files, nd))
    /\ Frame

DoLoadBuffers ==
    /\ phase = "live"
    /\ \E nd \in LoadND : Commit("LoadBuffers", LoadBuffers(mgc, native, nd))
    /\ Frame

DoCompile ==
    /\ phase = "live"
    /\ \E nd \in LoadND : Commit("Compile", Compile(mgc, native, nd))
    /\ Frame

DoCheck ==
    /\ phase = "live"
    /\ \E nd \in LoadND : Commit("Check", Compile(mgc, native, nd))
    /\ Frame

DoFile ==
    /\ phase = "live"
    /\ \E nd \in QueryND : Commit("File", File(mgc, native, nd))
    /\ Frame

DoBuffer ==
    /\ phase = "live"
    /\ \E nd \in QueryND : Commit("Buffer", Buffer(mgc, native, nd))
    /\ Frame

\* A query on a descriptor that is not open cannot produce a result, and only
\* the releases that HAVE_BROKEN_MAGIC names close the descriptor they are given.
\* HAVE_BROKEN_MAGIC decides what the call returns and no later state, so it is
\* drawn with the call.
DoDescriptor ==
    /\ phase = "live"
    /\ \E broken \in BOOLEAN, fdOpen \in BOOLEAN, closesFd \in BOOLEAN, nd \in QueryND :
         /\ closesFd => broken
         /\ ~fdOpen => nd.res = CNULL
         /\ Commit("Descriptor", Descriptor(mgc, native, broken, fdOpen, closesFd, nd))
    /\ Frame

\* os.Setenv("MAGIC", ...) between calls
Setenv ==
    /\ phase = "live"
    /\ \E v \in EnvPaths : v # env.MAGIC /\ env' = [env EXCEPT !.MAGIC = v]
    /\ UNCHANGED <<mgc, native, finalizer, phase, build, last>>
    /\ Idle

\* The caller lets go of the session.
Drop ==
    /\ phase = "live"
    /\ \A c \in Callers : pc[c] = "idle"
    /\ phase' = "dropped"
    /\ UNCHANGED <<mgc, native, finalizer, env, build, last>>
    /\ Idle

\* The garbage collector runs the finalizer of an unreachable session.
Finalize ==
    /\ phase = "dropped"
    /\ finalizer
    /\ Commit("finalizer", close(mgc, native))
    /\ finalizer' = FALSE
    /\ UNCHANGED <<phase, env, build>>
    /\ Idle

Next ==
    \/ DoNew \/ DoClose \/ DoPaths \/ DoParameter \/ DoSetParameter \/ DoFlags
    \/ DoSetFlags \/ DoFlagsSlice \/ DoLoad \/ DoLoadBuffers \/ DoCompile \/ DoCheck
    \/ DoFile \/ DoBuffer \/ DoDescriptor \/ Setenv \/ Drop \/ Finalize

Spec == Init /\ [][Next]_vars

-----------------------------------------------------------------------------
(* Properties of the methods, one caller (Spec). *)

FallibleOps ==
    {"Paths", "Parameter", "SetParameter", "Flags", "SetFlags", "FlagsSlice", "Load",
     "LoadBuffers", "Compile", "Check", "File", "Buffer", "Descriptor"}

Queries == {"File", "Buffer", "Descriptor"}

\* IsOpen / HasLoaded, as the caller would read them now
IsOpen == verifyOpen(mgc) = NoError
HasLoaded == verifyLoaded(mgc) = NoError

\* C1: on a closed session every fallible method fails with "Magic library is
\* not open" and makes no call into the shim.
ClosedSessionFailsFast ==
    (last.op \in FallibleOps /\ ~last.open) =>
        (last.err = NotOpen /\ last.calls = 0 /\ last.nres = CNULL /\ last.qflags = -1)

ClosedSessionCalled ==
    /\ phase = "live"
    /\ last.op = "Descriptor"
    /\ ~last.open
    /\ last.err = NotOpen

\* C2: after Close the cookie is nil, the cached paths are empty and the session
\* reads as closed; a Close of a closed session returns normally, makes no native
\* call and changes nothing of the session.
CloseIdempotent ==
    /\ [](last.op = "Close" =>
            /\ mgc.cookie = NULL /\ mgc.paths = <<>> /\ ~IsOpen /\ ~finalizer
            /\ last.err = NoError
            /\ ~last.open => last.calls = 0)
    /\ [][(last'.op = "Close" /\ ~last'.open) =>
            (mgc' = mgc /\ native' = native /\ finalizer' = finalizer)]_vars

ClosedTwice ==
    /\ phase = "live"
    /\ last.op = "Close"
    /\ ~last.open
    /\ native.frees = 1

\* C5: a Load that fails on a session whose paths came from an earlier
\* successful Load leaves Paths() reporting what it reported before.
FailedLoadKeepsPaths ==
    [][(last'.op = "Load" /\ last'.err # NoError /\ last'.open
            /\ mgc.loaded /\ mgc.paths # <<>>) =>
        (Paths(mgc', native').list = Paths(mgc, native).list)]_vars

\* C6: a Load or LoadBuffers that fails on a loaded session leaves it loaded.
FailedLoadKeepsLoaded ==
    [][(last'.op \in {"Load", "LoadBuffers"} /\ last'.err # NoError /\ last'.open
            /\ HasLoaded) => HasLoaded']_vars

\* C7: a query on a closed session fails with "Magic library is not open", a
\* query on an open session without a database fails with "Magic database not
\* loaded"; neither reaches the shim, so no query and no flag change happens.
QueryPreconditions ==
    last.op \in Queries =>
        /\ ~last.open =>
             (last.err = NotOpen /\ last.calls = 0 /\ last.nres = CNULL /\ last.qflags = -1)
        /\ (last.open /\ ~last.loaded) =>
             (last.err = NotLoaded /\ last.calls = 0 /\ last.nres = CNULL /\ last.qflags = -1)
        /\ NotOpen # NotLoaded

QueryOnUnloaded ==
    /\ last.op = "Buffer"
    /\ last.open
    /\ ~last.loaded
    /\ last.err = NotLoaded

\* C8: a query on an open, loaded session leaves the native flags, and what
\* Flags() returns with or without the native getter, as they were before it.
FlagOverrideScoped ==
    [][(last'.op \in Queries /\ last'.open /\ last'.loaded) =>
        /\ native'.flags = native.flags
        /\ \A g \in BOOLEAN : Flags(mgc', native', g).num = Flags(mgc, native, g).num]_vars

\* C9: a native result "", "(null)" or "???" without the EXTENSION flag makes
\* the query fail with code -1, "empty or invalid result".
SentinelIsError ==
    (last.op \in Queries /\ last.open /\ last.loaded /\ last.nres \in Sentinels
        /\ And(mgc.flags, EXTENSION) = 0) =>
        (last.err = Err(-1, "empty or invalid result") /\ last.str = "")

\* C10: a native result "???" or "(null)" with the EXTENSION flag set makes the
\* query succeed with the empty string.
ExtensionSentinelIsEmpty ==
    (last.op \in Queries /\ last.open /\ last.loaded /\ last.nres \in {"???", "(null)"}
        /\ And(mgc.flags, EXTENSION) # 0) =>
        (last.err = NoError /\ last.str = "")

\* C14: a successful SetFlags(f) immediately followed by Flags() returns f,
\* from the native getter and from the cached value alike.
FlagsRoundTrip ==
    [][(last.op = "SetFlags" /\ last.open /\ last.err = NoError /\ last'.op = "Flags") =>
        (last'.err = NoError /\ last'.num = last.arg[1])]_vars

\* Flags() has just returned a non-zero value that SetFlags set.
FlagsReadBack ==
    /\ last.op = "Flags"
    /\ last.open
    /\ last.err = NoError
    /\ last.num = CONTINUE
    /\ mgc.flags = CONTINUE

ResultIsNativeValue ==
    last.op \in Queries =>
        /\ last.err # NoError => last.str = ""
        /\ last.err = NoError => last.str = last.nres

\* File handed libmagic's error message back as its result.
ErrorTextAsResult ==
    /\ last.op = "File"
    /\ last.nres = CNULL
    /\ ~mgc.errors
    /\ And(mgc.flags, ERROR) = 0
    /\ last.err = NoError
    /\ last.str = native.err.msg

\* C20, amended: a query returns either an *Error and the empty string, or no
\* error and a non-empty string; the string is the value the native query
\* produced, or, for File on a session that does not stop on errors (errors
\* off, no ERROR flag) whose native query failed, libmagic's error message.
ResultOrError ==
    last.op \in Queries =>
        /\ last.err # NoError => (last.str = "" /\ IsError(last.err))
        /\ last.err = NoError =>
             /\ last.str # ""
             /\ \/ last.str = last.nres
                \/ ErrorTextAsResult

-----------------------------------------------------------------------------
(* Several callers on one session (SpecConc).  A method is four steps: take
   the session's RWMutex, test the method's precondition, return from the
   native calls with the method's effect, release the mutex.  A caller is
   "inside a native call" between the second and the third.  What each call
   returned to its caller is not recorded here. *)

\* The methods the callers issue, by the lock they take.
Writers == {"Close", "Load", "SetFlags"}
Readers == {"File", "Compile", "Flags"}
ConcOps == Writers \cup Readers

\* The flag values the concurrent callers pass to SetFlags.
ConcFlagInputs == {NONE, MIME_TYPE}

\* sync.RWMutex: Lock waits for the writer and all readers to leave, RLock for
\* the writer only.
ExclusiveAlways(c) == TRUE

\* mgc.Lock() can return
LockFree(c) == rw.writer = 0 /\ rw.readers = {}

RLockAlways(c) == TRUE

\* mgc.RLock() can return
RLockFree(c) == rw.writer = 0

\* The method passes its checks and goes on to its native calls.
Proceeds(o) ==
    CASE o = "Close" -> mgc.cookie # NULL
      [] o = "File" -> verifyLoaded(mgc) = NoError
      [] OTHER -> verifyOpen(mgc) = NoError

\* What the method of caller c returns and leaves behind, per outcome of its
\* native calls.  Close tested the cookie before the call and does not again.
Returns(c, o) ==
    CASE o = "Close" -> {IF pc[c] = "native" THEN release(mgc, native)
                                               ELSE Out(mgc, native, NoError, 0)}
      [] o = "Load" -> {Load(mgc, native, <<>>, nd) : nd \in LoadND}
      [] o = "SetFlags" -> {SetFlags(mgc, native, f) : f \in ConcFlagInputs}
      [] o = "File" -> {File(mgc, native, nd) : nd \in QueryND}
      [] o = "Compile" -> {Compile(mgc, native, nd) : nd \in LoadND}
      [] OTHER -> {Flags(mgc, native, g) : g \in BOOLEAN}

Step(c, to) == pc' = [pc EXCEPT ![c] = to]

\* A caller starts a method on the session.
CBegin(c) ==
    /\ phase = "live"
    /\ pc[c] = "idle"
    /\ \E o \in ConcOps : op' = [op EXCEPT ![c] = o]
    /\ Step(c, "lock")
    /\ UNCHANGED <<mgc, native, finalizer, phase, env, build, last, rw>>

\* mgc.Lock()
CLock(c) ==
    /\ pc[c] = "lock"
    /\ op[c] \in Writers
    /\ LockFree(c)
    /\ rw' = [rw EXCEPT !.writer = c]
    /\ Step(c, "held")
    /\ UNCHANGED <<mgc, native, finalizer, phase, env, build, last, op>>

\* mgc.RLock()
CRLock(c) ==
    /\ pc[c] = "lock"
    /\ op[c] \in Readers
    /\ RLockFree(c)
    /\ rw' = [rw EXCEPT !.readers = @ \cup {c}]
    /\ Step(c, "held")
    /\ UNCHANGED <<mgc, native, finalizer, phase, env, build, last, op>>

\* The checks fail (for Close: the cookie is nil already): the method returns
\* without a native call.
CRefuse(c) ==
    /\ pc[c] = "held"
    /\ ~Proceeds(op[c])
    /\ \E r \in Returns(c, op[c]) : mgc' = r.m /\ native' = r.n
    /\ finalizer' = IF op[c] = "Close" THEN FALSE ELSE finalizer
    /\ Step(c, "unlock")
    /\ UNCHANGED <<phase, env, build, last, rw, op>>

\* The checks pass: the method enters its native calls.
CEnter(c) ==
    /\ pc[c] = "held"
    /\ Proceeds(op[c])
    /\ Step(c, "native")
    /\ UNCHANGED <<mgc, native, finalizer, phase, env, build, last, rw, op>>

\* The native calls return and the method finishes its work.
CExit(c) ==
    /\ pc[c] = "native"
    /\ \E r \in Returns(c, op[c]) : mgc' = r.m /\ native' = r.n
    /\ finalizer' = IF op[c] = "Close" THEN FALSE ELSE finalizer
    /\ Step(c, "unlock")
    /\ UNCHANGED <<phase, env, build, last, rw, op>>

\* defer mgc.Unlock() / defer mgc.RUnlock()
CUnlock(c) ==
    /\ pc[c] = "unlock"
    /\ rw' = [writer |-> IF rw.writer = c THEN 0 ELSE rw.writer,
              readers |-> rw.readers \ {c}]
    /\ Step(c, "idle")
    /\ UNCHANGED <<mgc, native, finalizer, phase, env, build, last, op>>

NextConc ==
    \/ DoNew
    \/ \E c \in Callers :
         CBegin(c) \/ CLock(c) \/ CRLock(c) \/ CRefuse(c) \/ CEnter(c) \/ CExit(c)
         \/ CUnlock(c)
    \/ Drop
    \/ Finalize

SpecConc == Init /\ [][NextConc]_vars

\* The callers inside a native call on the handle
InNative == {c \in Callers : pc[c] = "native"}

\* C3: the native handle is released at most once, whatever the interleaving of
\* Close calls and the finalizer, and once it is released the finalizer is
\* disarmed.
ReleasedAtMostOnce == native.frees <= 1 /\ (native.frees = 1 => ~finalizer)

\* One caller has released the handle and still holds the lock, the other
\* waits to Close.
ClosesOverlap ==
    /\ native.frees = 1
    /\ \E c \in Callers, d \in Callers :
         /\ op[c] = "Close" /\ pc[c] = "unlock"
         /\ op[d] = "Close" /\ pc[d] = "lock"

\* C4: at most one caller is inside a native call on the handle at any time.
NativeCallsExclusive == Cardinality(InNative) <= 1

-----------------------------------------------------------------------------
(* Open(f, options...) (SpecOpen).  The callback is any sequence of methods
   on the session, ended by a return or a panic; Open's two deferred
   functions then run, the recover first and mgc.Close() after it.  Caller 1
   marks the callback: pc[1] = "callback" while f runs. *)

\* The values a callback panics with.  panic(nil) reaches recover() as nil when
\* the runtime keeps the semantics of Go before 1.21 (GODEBUG=panicnil=1) and
\* as a *runtime.PanicNilError otherwise.
PanicValues ==
    {[kind |-> "string", s |-> "123abc456", i |-> 0, e |-> NoError],
     [kind |-> "int", s |-> "", i |-> 42, e |-> NoError],
     [kind |-> "error", s |-> "", i |-> 0, e |-> Err(-1, "Magic database not loaded")],
     [kind |-> "error", s |-> "", i |-> 0, e |-> Foreign("index out of range")],
     [kind |-> "nil", s |-> "", i |-> 0, e |-> NoError]}

\* The errors a callback returns
CallbackErrors == {Err(-1, "Magic database not loaded"), Foreign("boom")}

\* How the callback ends
CallbackOutcomes ==
    {[kind |-> "return", e |-> NoError, v |-> CHOOSE v \in PanicValues : v.kind = "nil"]}
    \cup {[kind |-> "return", e |-> e, v |-> CHOOSE v \in PanicValues : v.kind = "nil"] :
            e \in CallbackErrors}
    \cup {[kind |-> "panic", e |-> NoError, v |-> v] : v \in PanicValues}

\* fmt.Sprintf("%v", r) of a value that is not an error
Sprint(v) == IF v.kind = "string" THEN v.s ELSE ToString(v.i)

\* What recover() hands to the deferred function for a panic with v
recovered(v, panicnil) ==
    IF v.kind = "nil" /\ ~panicnil
    THEN [kind |-> "error", s |-> "", i |-> 0,
          e |-> Foreign("panic called with nil argument (obsolete)")]
    ELSE v

\* The error Open returns once f ended with outcome o: f's own return value,
\* or what the deferred recover makes of the panic.
openResult(o, panicnil) ==
    IF o.kind = "return" THEN o.e
    ELSE LET r == recovered(o.v, panicnil)
         IN  IF r.kind = "nil" THEN NoError
             ELSE IF r.kind = "error" THEN r.e
             ELSE Err(-1, Sprint(r))

NotAFunction == Err(-1, "not a function or nil pointer")

deferredCloseSkipped(m, n) == Out(m, n, NoError, 0)

\* defer mgc.Close(), run when Open returns
deferredClose(m, n) == close(m, n)

\* What Open left behind: the error, its Error() string and how f ended
\* (list is empty when f never ran).
OpenSeen(err, ended) ==
    [NoLast EXCEPT !.op = "Open", !.err = err, !.list = ended,
                   !.str = IF err = NoError THEN "" ELSE ErrorString(err)]

\* Open(nil)
OpenNil ==
    /\ phase = "init"
    /\ last' = OpenSeen(NotAFunction, <<>>)
    /\ phase' = "dropped"
    /\ UNCHANGED <<mgc, native, finalizer, env, build, rw, pc, op>>

\* Open(f): New(options...) fails and Open returns its error, or f starts.
OpenNew ==
    /\ phase = "init"
    /\ \/ /\ last' = OpenSeen(Err(ENOMEM, "failed to initialize Magic library"), <<>>)
          /\ phase' = "dropped"
          /\ UNCHANGED <<mgc, native, finalizer, pc>>
       \/ \E noAutoload \in BOOLEAN, noStop \in BOOLEAN, options \in OptionLists, nd \in LoadND :
            LET r == New(noAutoload, noStop, options, nd)
            IN  /\ mgc' = r.m
                /\ native' = r.n
                /\ finalizer' = r.armed
                /\ last' = IF r.given THEN Seen("New", r) ELSE OpenSeen(r.err, <<>>)
                /\ phase' = IF r.given THEN "live" ELSE "dropped"
                /\ pc' = IF r.given THEN [pc EXCEPT ![1] = "callback"] ELSE pc
    /\ UNCHANGED <<env, build, rw, op>>

\* f ends; the deferred recover and the deferred mgc.Close() run; Open returns.
\* The callback may have passed the session outside (kept), where it stays in
\* use.
OpenReturn ==
    /\ phase = "live"
    /\ pc[1] = "callback"
    /\ \E o \in CallbackOutcomes, panicnil \in BOOLEAN, kept \in BOOLEAN :
         /\ last' = OpenSeen(openResult(o, panicnil), <<o>>)
         /\ phase' = IF kept THEN "live" ELSE "dropped"
    /\ mgc' = deferredClose(mgc, native).m
    /\ native' = deferredClose(mgc, native).n
    /\ finalizer' = IF deferredClose(mgc, native).m.cookie = NULL THEN FALSE ELSE finalizer
    /\ pc' = [pc EXCEPT ![1] = "idle"]
    /\ UNCHANGED <<env, build, rw, op>>

NextOpen ==
    \/ OpenNil \/ OpenNew \/ OpenReturn
    \/ DoClose \/ DoLoad \/ DoSetFlags \/ DoFile
    \/ Finalize

SpecOpen == Init /\ [][NextOpen]_vars

\* Open has returned after running the callback
OpenRan == last.op = "Open" /\ last.list # <<>>

\* C11: when Open returns after its callback ran, however the callback ended,
\* the session is closed: the cookie is nil and the native handle released once.
OpenClosesSession ==
    OpenRan => (mgc.cookie = NULL /\ ~native.live /\ native.frees = 1 /\ ~finalizer)

OpenReturnedAfterPanic ==
    /\ OpenRan
    /\ last.list[1].kind = "panic"
    /\ mgc.cookie = NULL

\* C12: a panic in the callback does not leave Open: Open returns a non-nil
\* error, and for a panic value that is not an error the error has code -1 and
\* the printed value as message (panic("123abc456") gives "magic: 123abc456").
PanicBecomesError ==
    (OpenRan /\ last.list[1].kind = "panic") =>
        LET v == last.list[1].v
        IN  /\ last.err # NoError
            /\ v.kind \in {"string", "int"} =>
                 (last.err = Err(-1, Sprint(v)) /\ last.str = "magic: " \o Sprint(v))
            /\ v.s = "123abc456" => last.str = "magic: 123abc456"

\* C13: every non-nil error Open returns is of type *Error.
OpenErrorsStructured ==
    (last.op = "Open" /\ last.err # NoError) => IsError(last.err)

-----------------------------------------------------------------------------
(* The flag methods over a range of bitmasks (SpecFlags): a session built by
   New(), then SetFlags with every value up to MaxFlagValue, Flags and
   FlagsSlice. *)

\* MAGIC unset at the start, a libmagic that has MAGIC_EXTENSION
InitDefault ==
    /\ Init
    /\ env.MAGIC = <<>>
    /\ build.extension

\* New()
NewDefault ==
    /\ phase = "init"
    /\ LET r == New(FALSE, FALSE, <<>>, OkND)
       IN  Commit("New", r) /\ finalizer' = r.armed
    /\ phase' = "live"
    /\ UNCHANGED <<env, build>>
    /\ Idle

SetFlagsAny ==
    /\ phase = "live"
    /\ \E flags \in 0..MaxFlagValue :
         Commit("SetFlags", [arg |-> <<flags>>] @@ SetFlags(mgc, native, flags))
    /\ Frame

NextFlags == NewDefault \/ SetFlagsAny \/ DoFlagsSlice \/ DoFlags

SpecFlags == InitDefault /\ [][NextFlags]_vars

RECURSIVE SumSeq(_)
SumSeq(s) == IF Len(s) = 0 THEN 0 ELSE Head(s) + SumSeq(Tail(s))

IsPowerOfTwo(x) == \E k \in 0..24 : x = 2^k

\* C16: FlagsSlice returns, for a non-zero bitmask, powers of two in strictly
\* ascending order whose sum is the bitmask (0x410 gives [0x10, 0x400]), and for
\* the zero bitmask the one-element sequence [0].
FlagsSliceDecomposes ==
    (last.op = "FlagsSlice" /\ last.open) =>
        /\ last.err = NoError
        /\ mgc.flags = 0 => last.list = <<0>>
        /\ mgc.flags # 0 =>
             /\ \A i \in 1..Len(last.list) : IsPowerOfTwo(last.list[i])
             /\ \A i \in 1..(Len(last.list) - 1) : last.list[i] < last.list[i + 1]
             /\ SumSeq(last.list) = mgc.flags
        /\ mgc.flags = 1040 => last.list = <<16, 1024>>

FlagsSliceOfMime ==
    /\ last.op = "FlagsSlice"
    /\ last.open
    /\ mgc.flags = 1040
    /\ Len(last.list) = 2

-----------------------------------------------------------------------------
(* Load and Paths over lists of distinct file names (SpecLoad): a session
   built by New(), then Load with every list of up to MaxFiles names, Paths,
   Close, and changes of MAGIC in between. *)

\* Two names free of the delimiter and one that holds it
LoadNames == {<<"a">>, <<"b">>, <<"c", ":", "d">>}

LoadLists == UNION {[1..k -> LoadNames] : k \in 0..MaxFiles}

LoadAny ==
    /\ phase = "live"
    /\ \E nd \in {OkND, [ok |-> FALSE, err |-> NoNativeError]}, files \in LoadLists :
         /\ ~nd.ok => files = <<>>
         /\ Commit("Load", [arg |-> files] @@ Load(mgc, native, files, nd))
    /\ Frame

NextLoad == NewDefault \/ LoadAny \/ DoPaths \/ DoClose \/ Setenv

SpecLoad == InitDefault /\ [][NextLoad]_vars

\* No name of the list holds the delimiter.
DelimiterFree(files) ==
    \A i \in 1..Len(files) : \A j \in 1..Len(files[i]) : files[i][j] # Delim

\* C17: after a successful Load(f1, ..., fn), n >= 1, with MAGIC unset and no
\* name holding ':', the session is loaded and Paths() returns [f1, ..., fn].
LoadSetsPaths ==
    (last.op = "Load" /\ last.open /\ last.err = NoError /\ env.MAGIC = <<>>
        /\ last.arg # <<>> /\ DelimiterFree(last.arg)) =>
        /\ HasLoaded
        /\ Paths(mgc, native).err = NoError
        /\ Paths(mgc, native).list = last.arg

\* Load("b", "a") succeeded on a session that reported other paths before.
LoadedTwoFiles ==
    /\ last.op = "Load"
    /\ last.open
    /\ last.loaded
    /\ last.err = NoError
    /\ env.MAGIC = <<>>
    /\ last.arg = << <<"b">>, <<"a">> >>
    /\ mgc.paths = << <<"b">>, <<"a">> >>

\* C26, as claimed: once a successful Load of named files has cached their
\* paths, Paths() returns the cached paths, whatever MAGIC is set to.
PathsPrefersCache ==
    [][(last.op = "Load" /\ last.open /\ last.err = NoError /\ last.arg # <<>>
            /\ last'.op = "Paths") =>
        last'.list = mgc.paths]_vars

\* Paths() returned the value of MAGIC on a session that has the paths of
\* Load("a") cached.
PathsFromEnvironment ==
    /\ last.op = "Paths"
    /\ last.open
    /\ mgc.paths = << <<"a">> >>
    /\ env.MAGIC = <<"e">>
    /\ last.list = << <<"e">> >>

\* C26, amended: Paths() returns the cached paths of the latest successful
\* Load when MAGIC is unset or empty; when MAGIC is set, or nothing is cached,
\* it reads the default path from libmagic anew on every call.  It caches
\* nothing itself.
PathsCacheUnlessEnv ==
    [][(last'.op = "Paths" /\ last' # last /\ last'.open) =>
        /\ last'.err = NoError
        /\ last'.list = IF mgc.paths # <<>> /\ env.MAGIC = <<>>
                        THEN mgc.paths
                        ELSE Split(IF env.MAGIC # <<>> THEN env.MAGIC ELSE DefaultPath)
        /\ mgc' = mgc]_vars


-----------------------------------------------------------------------------
(* New with several options (SpecNew): one call of New with up to
   MaxNewOptions options, then Paths, Close, and the finalizer once the
   session is dropped. *)

NewOptions ==
    {[kind |-> "DoNotStopOnErrors", files |-> <<>>, nd |-> OkND],
     [kind |-> "DisableAutoload", files |-> <<>>, nd |-> OkND],
     [kind |-> "WithFiles", files |-> << <<"a">> >>, nd |-> OkND],
     [kind |-> "WithFiles", files |-> <<>>,
      nd |-> [ok |-> FALSE,
              err |-> [msg |-> "could not find any valid magic files!", errno |-> EBADF]]],
     [kind |-> "WithBuffers", files |-> <<>>, nd |-> OkND],
     [kind |-> "WithBuffers", files |-> <<>>, nd |-> [ok |-> FALSE, err |-> NoNativeError]]}

NewOptionLists == UNION {[1..k -> NewOptions] : k \in 0..MaxNewOptions}

\* New(options...), MAGIC_DO_NOT_AUTOLOAD and MAGIC_DO_NOT_STOP_ON_ERROR set or not
NewAny ==
    /\ phase = "init"
    /\ \E noAutoload \in BOOLEAN, noStop \in BOOLEAN, options \in NewOptionLists,
          nd \in LoadND :
         LET r == New(noAutoload, noStop, options, nd)
             how == [applied |-> r.applied, autoloaded |-> r.autoloaded,
                     noAutoload |-> noAutoload, given |-> r.given]
         IN  /\ Commit("New", [arg |-> options, list |-> <<how>>] @@ r)
             /\ finalizer' = r.armed
             /\ phase' = IF r.given THEN "live" ELSE "dropped"
    /\ UNCHANGED <<env, build>>
    /\ Idle

NextNew == NewAny \/ DoPaths \/ DoClose \/ Drop \/ Finalize

SpecNew == InitDefault /\ [][NextNew]_vars

\* The error an option returns when its native call fails
optionError(o) == applyOption(opened, FreshNative, TRUE, o).err

\* The options of the list whose native call fails
Failing(options) == {i \in 1..Len(options) : ~options[i].nd.ok}

FirstFailing(options) ==
    CHOOSE i \in Failing(options) : \A j \in Failing(options) : i <= j

\* C18: when an option fails, New returns that option's error and no session,
\* calls no later option, does not try the default database, and has released
\* the native handle and disarmed the finalizer.
NewStopsAtFailedOption ==
    (last.op = "New" /\ Failing(last.arg) # {}) =>
        LET i == FirstFailing(last.arg)
            how == last.list[1]
        IN  /\ last.err = optionError(last.arg[i])
            /\ last.err # NoError
            /\ ~how.given
            /\ phase = "dropped"
            /\ how.applied = i
            /\ ~how.autoloaded
            /\ mgc.cookie = NULL
            /\ ~native.live
            /\ native.frees = 1
            /\ ~finalizer

\* New(WithFiles fails, DisableAutoload) has returned.
NewOptionFailedFirst ==
    /\ last.op = "New"
    /\ Len(last.arg) = 2
    /\ Failing(last.arg) = {1}
    /\ last.arg[2].kind = "DisableAutoload"
    /\ last.list[1].applied = 1

\* An option of this kind loads a database.
Loads(o) == o.kind \in {"WithFiles", "WithBuffers"}

-----------------------------------------------------------------------------
(* Descriptor and the descriptor table (SpecFd).  The process opens and
   closes descriptors above stderr; Descriptor is called with any of them,
   open or not, and with -1.  env.fds holds the open descriptors, env.cloexec
   those with FD_CLOEXEC set. *)

\* The descriptors a caller passes: -1 and some of those the process can open
FdInputs == {-1} \cup ((STDERR_FILENO + 1)..(MaxFd - 1))

\* The lowest descriptor above stderr that is free, or -1 when there is none
LowestFree(fds) ==
    IF \E d \in (STDERR_FILENO + 1)..MaxFd : d \notin fds
    THEN CHOOSE d \in (STDERR_FILENO + 1)..MaxFd :
            d \notin fds /\ \A e \in (STDERR_FILENO + 1)..MaxFd : e \notin fds => d <= e
    ELSE -1

\* The descriptor is open; the standard streams always are.
IsOpenFd(t, fd) == fd \in 0..STDERR_FILENO \/ fd \in t.fds

\* The descriptor refers to the terminal.
IsTty(t, fd) == (fd = STDERR_FILENO /\ t.stderr = "tty") \/ fd \in t.tty

safe_dup_same(t, fd) == [fd |-> fd, errno |-> 0, t |-> t]

\* safe_dup(fd): fcntl(fd, F_DUPFD_CLOEXEC, fileno(stderr) + 1), then
\* safe_cloexec on what it gave.  When fcntl fails for a reason other than
\* EINVAL, safe_cloexec(-1) fails in its turn and leaves EBADF.  t is the
\* table [fds, cloexec, tty, stderr].
safe_dup(t, fd) ==
    IF ~IsOpenFd(t, fd) \/ LowestFree(t.fds) = -1
    THEN [fd |-> -1, errno |-> EBADF, t |-> t]
    ELSE [fd |-> LowestFree(t.fds), errno |-> 0,
          t |-> [t EXCEPT !.fds = @ \cup {LowestFree(t.fds)},
                          !.cloexec = @ \cup {LowestFree(t.fds)},
                          !.tty = IF IsTty(t, fd) THEN @ \cup {LowestFree(t.fds)} ELSE @]]

\* check_fd(fd), as the errno it leaves
check_fd(t, fd) == IF fd < 0 \/ ~IsOpenFd(t, fd) THEN EBADF ELSE 0

\* safe_close(fd); libmagic's own close of the descriptor it was given is the
\* same system call
safe_close(t, fd) ==
    [t EXCEPT !.fds = @ \ {fd}, !.cloexec = @ \ {fd}, !.tty = @ \ {fd}]

\* What magic_descriptor_wrapper does to the descriptor table: the table it
\* leaves, the descriptor libmagic was given (-1 when it was not called) and
\* whether that one had FD_CLOEXEC.
descriptor_fds(t, fd, broken, closesFd) ==
    IF broken
    THEN LET d == safe_dup(t, fd)
         IN  IF d.fd < 0
             THEN [t |-> t, passed |-> -1, cloexec |-> FALSE]
             ELSE LET t1 == IF closesFd THEN safe_close(d.t, d.fd) ELSE d.t
                      t2 == IF check_fd(t1, d.fd) = 0 THEN safe_close(t1, d.fd) ELSE t1
                  IN  [t |-> t2, passed |-> d.fd, cloexec |-> d.fd \in d.t.cloexec]
    ELSE [t |-> IF closesFd THEN safe_close(t, fd) ELSE t,
          passed |-> fd, cloexec |-> fd \in t.cloexec]

Table == [fds |-> env.fds, cloexec |-> env.cloexec, tty |-> env.tty, stderr |-> env.stderr]

\* The process with the table t
SetTable(e, t) ==
    [e EXCEPT !.fds = t.fds, !.cloexec = t.cloexec, !.tty = t.tty, !.stderr = t.stderr]

\* A system call of the caller's own: the trace of the last method call ends.
Syscall == [NoLast EXCEPT !.op = "syscall"]

\* os.Open: the caller gets the lowest free descriptor, close-on-exec as Go
\* opens files.
OpenFd ==
    /\ phase = "live"
    /\ LowestFree(env.fds) # -1
    /\ LowestFree(env.fds) < MaxFd
    /\ env' = [env EXCEPT !.fds = @ \cup {LowestFree(env.fds)},
                          !.cloexec = @ \cup {LowestFree(env.fds)}]
    /\ last' = Syscall
    /\ UNCHANGED <<mgc, native, finalizer, phase, build>>
    /\ Idle

\* f.Close()
CloseFd ==
    /\ phase = "live"
    /\ \E fd \in env.fds : env' = SetTable(env, safe_close(Table, fd))
    /\ last' = Syscall
    /\ UNCHANGED <<mgc, native, finalizer, phase, build>>
    /\ Idle

\* mgc.Descriptor(fd).  A query on a descriptor that is not open cannot
\* produce a result, and only the releases that HAVE_BROKEN_MAGIC names close
\* the descriptor they are given.
DescriptorAny ==
    /\ phase = "live"
    /\ \E fd \in FdInputs, broken \in BOOLEAN, closesFd \in BOOLEAN, nd \in QueryND :
         LET f == descriptor_fds(Table, fd, broken, closesFd)
             how == [fd |-> fd, wasOpen |-> fd \in env.fds, before |-> Table,
                     broken |-> broken, closesFd |-> closesFd,
                     passed |-> f.passed, cloexec |-> f.cloexec]
             r == Descriptor(mgc, native, broken, fd \in env.fds, closesFd, nd)
         IN  /\ closesFd => broken
             /\ fd \notin env.fds => nd.res = CNULL
             /\ Commit("Descriptor", [arg |-> <<fd>>, list |-> <<how>>] @@ r)
             /\ env' = IF r.calls = 0 THEN env ELSE SetTable(env, f.t)
    /\ UNCHANGED <<finalizer, phase, build>>
    /\ Idle

NextFd == NewDefault \/ OpenFd \/ CloseFd \/ DescriptorAny \/ DoClose

SpecFd == InitDefault /\ [][NextFd]_vars

\* Descriptor has just run its native query on an open, loaded session.
DescriptorRan == last.op = "Descriptor" /\ last.open /\ last.loaded

CallerDescriptorKept ==
    DescriptorRan =>
        LET how == last.list[1]
        IN  /\ Table = how.before
            /\ how.wasOpen => how.fd \in env.fds
            /\ (how.closesFd /\ how.passed # -1) =>
                 (how.passed # how.fd /\ how.passed \notin how.before.fds /\ how.cloexec)

\* libmagic closed the duplicate it was given; the caller's descriptor is open.
DuplicateClosedByNative ==
    /\ DescriptorRan
    /\ last.list[1].closesFd
    /\ last.list[1].wasOpen
    /\ last.list[1].passed = STDERR_FILENO + 2
    /\ last.arg = <<STDERR_FILENO + 1>>
    /\ env.fds = {STDERR_FILENO + 1}

-----------------------------------------------------------------------------
(* The queries over every session setting (SpecQuery): a session built by
   New() or New(DoNotStopOnErrors), then SetFlags, File, Buffer with buffers
   of every length up to MaxBufferLen, and Descriptor. *)

Separator == "\n- "

\* What libmagic prints between two matches when RAW is off: the newline as
\* an octal escape
EscapedSeparator == "\\012- "

\* The descriptions libmagic finds for a buffer
Matches ==
    {"Bourne-Again shell script text executable", "a /bin/bash script, ASCII text executable"}

MatchLists == UNION {[1..k -> Matches] : k \in 1..MaxMatches}

RECURSIVE JoinWith(_, _)
JoinWith(ms, sep) ==
    IF Len(ms) = 1 THEN <<ms[1]>> ELSE <<ms[1], sep>> \o JoinWith(Tail(ms), sep)

\* The result libmagic builds from its matches under the native flags: the
\* first match, or with CONTINUE all of them, the separator printed raw or
\* escaped.  A result is a sequence of pieces of text.
magic_render(ms, flags) ==
    IF And(flags, CONTINUE) = 0 THEN <<ms[1]>>
    ELSE JoinWith(ms, IF And(flags, RAW) # 0 THEN Separator ELSE EscapedSeparator)

RECURSIVE SplitOn(_, _, _)
\* strings.Split(s, sep) on a result given in pieces, with `cur' the field
\* being read: the fields, each a sequence of pieces
SplitOn(s, sep, cur) ==
    IF Len(s) = 0 THEN <<cur>>
    ELSE IF Head(s) = sep THEN <<cur>> \o SplitOn(Tail(s), sep, <<>>)
    ELSE SplitOn(Tail(s), sep, Append(cur, Head(s)))

\* What libmagic makes of a buffer without data
EmptyND == [res |-> "empty", err |-> NoNativeError]

\* New() or New(DoNotStopOnErrors)
NewQuery ==
    /\ phase = "init"
    /\ \E noStop \in BOOLEAN :
         LET r == New(FALSE, noStop, <<>>, OkND)
         IN  Commit("New", r) /\ finalizer' = r.armed
    /\ phase' = "live"
    /\ UNCHANGED <<env, build>>
    /\ Idle

\* mgc.Buffer(buffer): arg is the length of the buffer and the matches
\* libmagic has for it, list the result in pieces.
BufferAny ==
    /\ phase = "live"
    /\ \E size \in 0..MaxBufferLen, nd \in QueryND \cup {EmptyND}, ms \in MatchLists :
         LET r == Buffer(mgc, native, nd)
             found == nd.res = "PNG image data"
         IN  /\ size = 0 => (nd = EmptyND \/ nd.res = CNULL)
             /\ size > 0 => nd # EmptyND
             /\ ~found => ms = <<CHOOSE x \in Matches : TRUE>>
             /\ Commit("Buffer",
                       [arg |-> <<size, IF found THEN ms ELSE <<>> >>,
                        list |-> IF found /\ r.err = NoError
                                 THEN magic_render(ms, r.qflags) ELSE <<>>] @@ r)
    /\ Frame

NextQuery == NewQuery \/ DoSetFlags \/ DoFile \/ BufferAny \/ DoDescriptor

SpecQuery == Init /\ [][NextQuery]_vars

\* The query method reached its native query.
QueryRan == last.op \in Queries /\ last.open /\ last.loaded

\* A message libmagic sets for an I/O error
IsMessage(msg) == msg \notin {CNULL, "", "(null)"}

\* C23: when the native file query gives no result and libmagic holds an error
\* message, File fails with that message and errno if the session has errors
\* on or the ERROR flag set, and otherwise succeeds with the message as result.
FileErrorByStrictness ==
    (QueryRan /\ last.op = "File" /\ last.nres = CNULL /\ IsMessage(native.err.msg)) =>
        IF mgc.errors \/ And(mgc.flags, ERROR) # 0
        THEN last.err = Err(native.err.errno, native.err.msg) /\ last.str = ""
        ELSE last.err = NoError /\ last.str = native.err.msg

\* File failed on a session that has errors off and the ERROR flag set.
FileFailedOnErrorFlag ==
    /\ QueryRan
    /\ last.op = "File"
    /\ last.nres = CNULL
    /\ ~mgc.errors
    /\ mgc.flags = ERROR
    /\ last.err.code = EBADF

\* C24: Buffer with a buffer of length zero on an open, loaded session returns
\* an error.
EmptyBufferFails ==
    (QueryRan /\ last.op = "Buffer" /\ last.arg[1] = 0) => last.err # NoError

\* C25: with the CONTINUE flag set the native query runs with RAW and CONTINUE
\* on, so libmagic joins the matches with Separator, and splitting the result
\* of Buffer on Separator gives the matches one by one, in order.
SeparatorSplits ==
    (QueryRan /\ And(mgc.flags, CONTINUE) # 0) =>
        /\ And(last.qflags, RAW) # 0
        /\ And(last.qflags, CONTINUE) # 0
        /\ (last.op = "Buffer" /\ last.list # <<>>) =>
             LET ms == last.arg[2]
             IN  SplitOn(last.list, Separator, <<>>) = [i \in 1..Len(ms) |-> <<ms[i]>>]

\* Buffer returned two matches joined by the separator.
TwoMatchesReturned ==
    /\ QueryRan
    /\ last.op = "Buffer"
    /\ mgc.flags = CONTINUE
    /\ Len(last.arg[2]) = 2
    /\ Len(last.list) = 3
    /\ last.list[2] = Separator

\* The flags flagsSaveAndRestore computes for the session
Forced == IF mgc.errors THEN Or(Or(mgc.flags, RAW), ERROR) ELSE Or(mgc.flags, RAW)

-----------------------------------------------------------------------------
(* Load, Compile, Check and the diagnostic stream (SpecErr).  The shim
   points descriptor 2 at /dev/null around the native call and back
   afterwards; each system call of the redirection may fail.  env.stderr is
   what descriptor 2 refers to: "tty", the target the process started with,
   or "null". *)

\* The call of suppress_error_output that fails, if any
SuppressFailures == {"none", "safe_dup", "open", "safe_cloexec", "dup2"}

\* dup2(fd, fileno(stderr)) that succeeds
dup2_stderr(t, fd) == [t EXCEPT !.stderr = IF IsTty(t, fd) THEN "tty" ELSE "null"]

\* suppress_error_output(&s): the table it leaves, the save_t it fills and its
\* return value.  status stays -1 when it succeeds.
suppress_error_output(t, fail) ==
    LET d == safe_dup(t, STDERR_FILENO)
        new == LowestFree(d.t.fds)
        opened_ == [d.t EXCEPT !.fds = @ \cup {new}]
    IN  IF fail = "safe_dup" \/ d.fd < 0
        THEN [t |-> t, s |-> [NoSave EXCEPT !.status = EBADF], rv |-> -1]
        ELSE IF fail = "open" \/ new = -1
        THEN [t |-> safe_close(dup2_stderr(d.t, d.fd), d.fd),
              s |-> [old_fd |-> d.fd, new_fd |-> -1, status |-> ENOMEM], rv |-> -1]
        ELSE IF fail = "safe_cloexec"
        THEN [t |-> opened_,
              s |-> [old_fd |-> d.fd, new_fd |-> new, status |-> EBADF], rv |-> -1]
        ELSE IF fail = "dup2"
        THEN [t |-> [opened_ EXCEPT !.cloexec = @ \cup {new}],
              s |-> [old_fd |-> d.fd, new_fd |-> new, status |-> EBADF], rv |-> -1]
        ELSE [t |-> safe_close([opened_ EXCEPT !.stderr = "null"], new),
              s |-> [old_fd |-> d.fd, new_fd |-> new, status |-> -1], rv |-> 0]

restore_error_output_never(t, s, fail) == [t |-> t, s |-> s, rv |-> -1]

\* restore_error_output(&s); fail: its dup2 fails
restore_error_output(t, s, fail) ==
    IF s.old_fd < 0 /\ s.status # 0
    THEN [t |-> t, s |-> s, rv |-> -1]
    ELSE IF fail \/ ~IsOpenFd(t, s.old_fd)
    THEN [t |-> t, s |-> [s EXCEPT !.status = EBADF], rv |-> -1]
    ELSE [t |-> safe_close(dup2_stderr(t, s.old_fd), s.old_fd), s |-> s, rv |-> 0]

\* The macro around the native call: suppress, call, restore.  guarded: the
\* macro calls restore only when suppress returned 0, as SUPPRESS_ERROR_OUTPUT
\* of functions.h does; otherwise it calls restore whatever suppress returned.
MAGIC_FUNCTION(t, sfail, rfail, guarded) ==
    LET a == suppress_error_output(t, sfail)
    IN  IF guarded /\ a.rv # 0 THEN a.t
        ELSE restore_error_output(a.t, a.s, rfail).t

\* How one call went: the stream and the open descriptors before it, the
\* failures drawn, the variant of the macro, whether suppress_error_output
\* returned 0, whether restore_error_output was called with a save_t whose
\* old_fd is closed already (stale), the outcome of the native call
ErrHow(sfail, rfail, guarded, ok) ==
    LET a == suppress_error_output(Table, sfail)
    IN  [before |-> env.stderr, fds |-> env.fds, sfail |-> sfail, rfail |-> rfail,
         guarded |-> guarded, ok |-> ok, redirected |-> a.rv = 0,
         stale |-> /\ ~(guarded /\ a.rv # 0)
                   /\ a.s.old_fd >= 0
                   /\ ~IsOpenFd(a.t, a.s.old_fd)]

\* A method whose native call runs inside MAGIC_FUNCTION, with result r when
\* the native call has outcome nd
WithErrorOutput(name, r, nd) ==
    \E sfail \in SuppressFailures, rfail \in BOOLEAN, guarded \in BOOLEAN :
       /\ Commit(name, [list |-> <<ErrHow(sfail, rfail, guarded, nd.ok)>>] @@ r)
       /\ env' = IF r.calls = 0 THEN env
                 ELSE SetTable(env, MAGIC_FUNCTION(Table, sfail, rfail, guarded))

\* The native call succeeds, or fails without a message.
ErrND == {OkND, [ok |-> FALSE, err |-> NoNativeError]}

\* New(): the default database is loaded through magic_load_wrapper.
NewErr ==
    /\ phase = "init"
    /\ \E nd \in ErrND :
         LET r == New(FALSE, FALSE, <<>>, nd)
         IN  /\ WithErrorOutput("New", r, nd)
             /\ finalizer' = r.armed
             /\ phase' = IF r.given THEN "live" ELSE "dropped"
    /\ UNCHANGED build
    /\ Idle

LoadErr ==
    /\ phase = "live"
    /\ \E nd \in ErrND : WithErrorOutput("Load", Load(mgc, native, <<>>, nd), nd)
    /\ UNCHANGED <<finalizer, phase, build>>
    /\ Idle

CompileErr ==
    /\ phase = "live"
    /\ \E nd \in ErrND : WithErrorOutput("Compile", Compile(mgc, native, nd), nd)
    /\ UNCHANGED <<finalizer, phase, build>>
    /\ Idle

CheckErr ==
    /\ phase = "live"
    /\ \E nd \in ErrND : WithErrorOutput("Check", Compile(mgc, native, nd), nd)
    /\ UNCHANGED <<finalizer, phase, build>>
    /\ Idle

NextErr == NewErr \/ LoadErr \/ CompileErr \/ CheckErr \/ DoClose

SpecErr == InitDefault /\ [][NextErr]_vars

\* Load, Compile or Check has returned from its shim call.
ShimReturned == last.op \in {"Load", "Compile", "Check"} /\ last.open

-----------------------------------------------------------------------------
(* Load, Compile and Check on two sessions at once (SpecErrConc).  Each
   caller has a session of its own, so no caller ever waits for the other's
   RWMutex; mgc and native hold the two sessions, by caller.  A call is two
   steps: the lock, the checks and suppress_error_output, then the return of
   the native call with restore_error_output and the rest of the method.
   The system calls of the redirection succeed here, but for the open of
   /dev/null. *)

ErrOps == {"Load", "Compile", "Check"}

\* The two sessions are built by New(), one after the other.
NewTwo ==
    /\ phase = "init"
    /\ LET r == New(FALSE, FALSE, <<>>, OkND)
       IN  /\ mgc' = [c \in Callers |-> r.m]
           /\ native' = [c \in Callers |-> r.n]
           /\ finalizer' = r.armed
    /\ env' = SetTable(env, MAGIC_FUNCTION(MAGIC_FUNCTION(Table, "none", FALSE, TRUE),
                                           "none", FALSE, TRUE))
    /\ phase' = "live"
    /\ UNCHANGED <<build, last>>
    /\ Idle

\* The caller's method takes its session's lock, passes verifyOpen and
\* redirects the stream; the native call begins.
ESuppress(c) ==
    /\ phase = "live"
    /\ pc[c] = "idle"
    /\ verifyOpen(mgc[c]) = NoError
    /\ \E o \in ErrOps, sfail \in {"none", "open"} :
         LET a == suppress_error_output(Table, sfail)
         IN  /\ op' = [op EXCEPT ![c] = o]
             /\ env' = [SetTable(env, a.t) EXCEPT !.save[c] = a.s]
    /\ Step(c, "native")
    /\ UNCHANGED <<mgc, native, finalizer, phase, build, last, rw>>

\* What the method makes of its session when the native call returns nd
ErrReturns(c, nd) ==
    IF op[c] = "Load" THEN Load(mgc[c], native[c], <<>>, nd)
    ELSE Compile(mgc[c], native[c], nd)

\* The native call returns; the macro restores the stream (guarded: only when
\* suppress_error_output had returned 0) and the method returns.
EReturn(c) ==
    /\ pc[c] = "native"
    /\ \E nd \in ErrND :
         /\ mgc' = [mgc EXCEPT ![c] = ErrReturns(c, nd).m]
         /\ native' = [native EXCEPT ![c] = ErrReturns(c, nd).n]
    /\ \E guarded \in BOOLEAN :
         env' = IF guarded /\ env.save[c].status # -1 THEN env
                ELSE LET b == restore_error_output(Table, env.save[c], FALSE)
                     IN  [SetTable(env, b.t) EXCEPT !.save[c] = b.s]
    /\ Step(c, "idle")
    /\ UNCHANGED <<finalizer, phase, build, last, rw, op>>

NextErrConc == NewTwo \/ \E c \in Callers : ESuppress(c) \/ EReturn(c)

SpecErrConc == InitDefault /\ [][NextErrConc]_vars

\* The callers between a suppress_error_output that redirected the stream and
\* their restore_error_output
InWindow == {c \in Callers : pc[c] = "native" /\ env.save[c].status = -1}

\* C28: the suppress/restore windows of Load, Compile and Check on two
\* sessions never overlap, and once every call has returned descriptor 2
\* refers to its original target.
ErrorOutputExclusive ==
    /\ Cardinality(InWindow) <= 1
    /\ (phase = "live" /\ InWindow = {}) => env.stderr = "tty"

-----------------------------------------------------------------------------
(* The cached flags under concurrent callers of one session (SpecRace).
   SetFlags runs under Lock and is one step.  FlagsSlice and File run under
   RLock; File is three steps, the statements of flagsSaveAndRestore that
   write mgc.flags apart from each other.  last records every read of the
   cached flags (num) next to the value of the latest successful SetFlags
   (arg). *)

\* The value the latest successful SetFlags set
LatestSet == IF last.arg = <<>> THEN NONE ELSE last.arg[1]

\* A caller read `value' from mgc.flags in method `name'.
FlagsRead(name, value) ==
    [NoLast EXCEPT !.op = name, !.open = TRUE, !.loaded = TRUE, !.num = value,
                   !.arg = <<LatestSet>>]

\* mgc.SetFlags(flags): Lock, the whole method, Unlock
RSetFlags(c) ==
    /\ phase = "live"
    /\ pc[c] = "idle"
    /\ LockFree(c)
    /\ \E flags \in ConcFlagInputs :
         LET r == SetFlags(mgc, native, flags)
         IN  /\ mgc' = r.m
             /\ native' = r.n
             /\ last' = [NoLast EXCEPT !.op = "SetFlags", !.open = TRUE, !.loaded = TRUE,
                                       !.err = r.err,
                                       !.arg = <<IF r.err = NoError THEN flags ELSE LatestSet>>]
    /\ UNCHANGED <<finalizer, phase, env, build, rw, pc, op>>

\* mgc.RLock() of FlagsSlice or File
RRLock(c) ==
    /\ phase = "live"
    /\ pc[c] = "idle"
    /\ RLockFree(c)
    /\ rw' = [rw EXCEPT !.readers = @ \cup {c}]
    /\ \E o \in {"FlagsSlice", "File"} : op' = [op EXCEPT ![c] = o]
    /\ Step(c, "held")
    /\ UNCHANGED <<mgc, native, finalizer, phase, env, build, last>>

RUnlocked(c) == rw' = [rw EXCEPT !.readers = @ \ {c}]

\* FlagsSlice reads mgc.flags and returns.
RFlagsSlice(c) ==
    /\ pc[c] = "held"
    /\ op[c] = "FlagsSlice"
    /\ last' = FlagsRead("FlagsSlice", mgc.flags)
    /\ RUnlocked(c)
    /\ Step(c, "idle")
    /\ UNCHANGED <<mgc, native, finalizer, phase, env, build, op>>

\* flagsSaveAndRestore: flags, mgc.flags = mgc.flags, mgc.flags|RAW and the
\* ERROR that follows
QSave(c) ==
    /\ pc[c] = "held"
    /\ op[c] = "File"
    /\ env' = [env EXCEPT !.local[c] = [flags |-> mgc.flags, ok |-> FALSE]]
    /\ mgc' = [mgc EXCEPT !.flags = IF mgc.errors THEN Or(Or(@, RAW), ERROR) ELSE Or(@, RAW)]
    /\ last' = FlagsRead("File", mgc.flags)
    /\ Step(c, "saved")
    /\ UNCHANGED <<native, finalizer, phase, build, rw, op>>

\* flagsSaveAndRestore: ok, the native flags set, mgc.flags = flags
QForce(c) ==
    /\ pc[c] = "saved"
    /\ LET ok == And(mgc.flags, CONTINUE) # 0 \/ And(mgc.flags, ERROR) # 0
       IN  /\ native' = IF ok THEN magic_setflags_wrapper(native, mgc.flags).n ELSE native
           /\ env' = [env EXCEPT !.local[c].ok = ok]
    /\ mgc' = [mgc EXCEPT !.flags = env.local[c].flags]
    /\ Step(c, "native")
    /\ UNCHANGED <<finalizer, phase, build, last, rw, op>>

\* The native query returns, the deferred function restores the native flags
\* from mgc.flags, File returns.
QReturn(c) ==
    /\ pc[c] = "native"
    /\ native' = IF env.local[c].ok /\ env.local[c].flags > 0
                 THEN magic_setflags_wrapper(native, mgc.flags).n ELSE native
    /\ last' = FlagsRead("File", mgc.flags)
    /\ RUnlocked(c)
    /\ Step(c, "idle")
    /\ UNCHANGED <<mgc, finalizer, phase, env, build, op>>

NextRace ==
    \/ NewDefault
    \/ \E c \in Callers :
         RSetFlags(c) \/ RRLock(c) \/ RFlagsSlice(c) \/ QSave(c) \/ QForce(c) \/ QReturn(c)

SpecRace == InitDefault /\ [][NextRace]_vars

\* C30: every read of the cached flags gives the value of the latest
\* successful SetFlags (0 before the first), and with no caller inside a
\* method the cached flags hold that value: no caller sees, or is left with,
\* the RAW and ERROR another caller's query forced.
CachedFlagsConsistent ==
    /\ last.op \in {"FlagsSlice", "File"} => last.num = LatestSet
    /\ (phase = "live" /\ \A c \in Callers : pc[c] = "idle") => mgc.flags = LatestSet

-----------------------------------------------------------------------------
(* The errors of the methods that report libmagic's error state (SpecError):
   a session built by New() on which SetFlags, Load, LoadBuffers, Compile,
   Check, the queries and Close run with every outcome and error state of the
   native call. *)

NextError ==
    \/ NewDefault \/ DoSetFlags \/ DoLoad \/ DoLoadBuffers \/ DoCompile \/ DoCheck
    \/ DoFile \/ DoBuffer \/ DoDescriptor \/ DoClose

SpecError == InitDefault /\ [][NextError]_vars

\* Load, Compile and Check return mgc.error() when the native call failed; the
\* error state it read is still the session's.
ReturnedNativeError ==
    last.op \in {"Load", "Compile", "Check"} /\ last.open /\ last.err # NoError

\* C31: the error read from an open session is one of three: code -1 and "an
\* unknown error has occurred" for a null native message, code -1 and "empty or
\* invalid error message" for the message "" or "(null)", and otherwise the
\* native message verbatim with the native errno.
ErrorNormalized ==
    ReturnedNativeError =>
        /\ native.err.msg = CNULL => last.err = Err(-1, "an unknown error has occurred")
        /\ native.err.msg \in {"", "(null)"} =>
               last.err = Err(-1, "empty or invalid error message")
        /\ native.err.msg \notin {CNULL, "", "(null)"} =>
               last.err = Err(native.err.errno, native.err.msg)

NullMessageNormalized ==
    /\ ReturnedNativeError
    /\ last.op = "Compile"
    /\ native.err.msg = "(null)"
    /\ last.err = Err(-1, "empty or invalid error message")

\* C32: no method returns an error whose message is "" or "(null)".
NoSentinelMessage ==
    (last.op \in FallibleOps /\ last.err # NoError) => last.err.msg \notin {"", "(null)"}

-----------------------------------------------------------------------------
(* The cached paths and the loaded status (Spec). *)

\* C33: between operations the cached database paths are non-empty only if
\* the session's loaded status is true.
PathsOnlyWhenLoaded == Len(mgc.paths) > 0 => mgc.loaded

\* a session that had loaded files from a list loads from buffers and fails
LoadBuffersFailedAfterLoad ==
    /\ last.op = "LoadBuffers"
    /\ last.loaded
    /\ last.err # NoError
    /\ mgc.paths = <<>>
    /\ ~mgc.loaded

-----------------------------------------------------------------------------
(* A failed New and the native handle (SpecNew). *)

\* C34: whenever New returns an error, the native handle it allocated has been
\* released before New returns.
FailedNewReleasesHandle ==
    (last.op = "New" /\ last.err # NoError) => ~native.live

-----------------------------------------------------------------------------
(* A closed session stays closed (SpecError). *)

\* C35: once a session has been closed, IsOpen() and HasLoaded() are false in
\* every later state, and no operation on it allocates a handle or opens it
\* again.
ClosedIsAbsorbing ==
    [][(phase = "live" /\ mgc.cookie = NULL) =>
          /\ mgc'.cookie = NULL
          /\ verifyOpen(mgc') # NoError
          /\ verifyLoaded(mgc') # NoError
          /\ ~native'.live
          /\ native'.frees = native.frees]_vars

\* a Load was tried on a session that had been loaded and closed
LoadAfterClose ==
    /\ phase = "live"
    /\ last.op = "Load"
    /\ ~last.open
    /\ mgc.loaded
    /\ mgc.cookie = NULL

-----------------------------------------------------------------------------
(* The handle under concurrent callers (SpecConc). *)

\* C36: no native call is made on a released handle: while a caller is between
\* its open-check and the return of its last native call, the handle is live,
\* whatever other callers and Close do.
NoCallAfterRelease == \A c \in Callers : pc[c] = "native" => native.live

\* a query is inside its native calls while another caller waits to Close
CloseWaitsForQuery ==
    \E c \in Callers, d \in Callers :
        /\ op[c] = "Close" /\ pc[c] = "lock"
        /\ op[d] = "File" /\ pc[d] = "native"
        /\ native.live

-----------------------------------------------------------------------------
(* The session's RWMutex with String (SpecLock).  sync.RWMutex as the Go
   library documents it: Lock takes the writers' mutex, announces itself and
   waits for the readers to leave; from the announcement until Unlock every
   RLock waits.  String takes RLock and, holding it, calls IsOpen and then
   HasLoaded, each of which takes and releases RLock again.  A caller is at
   "lock" before Lock/RLock returns, at "wait" once its Lock is announced, at
   "held" with the method's lock, at "in1"/"in2" inside IsOpen/HasLoaded
   called from String, at "held2" between the two. *)

LockWriters == {"Close", "SetFlags", "Load", "Paths"}
LockReaders == {"String", "IsOpen", "HasLoaded"}

\* The callers whose Lock is announced and waits for the readers
Pending == {c \in Callers : pc[c] = "wait"}

\* RLock can return: no writer holds the lock and none is announced
RLockGranted == rw.writer = 0 /\ Pending = {}

\* What the method returns and leaves behind once it holds its lock.
LockReturns(o) ==
    CASE o = "Close" -> {close(mgc, native)}
      [] o = "SetFlags" -> {SetFlags(mgc, native, f) : f \in ConcFlagInputs}
      [] o = "Load" -> {Load(mgc, native, <<>>, nd) : nd \in {OkND}}
      [] o = "Paths" -> {Paths(mgc, native)}
      [] OTHER -> {Out(mgc, native, NoError, 0)}

\* A caller starts a method on the session.
LBegin(c) ==
    /\ phase = "live"
    /\ pc[c] = "idle"
    /\ \E o \in LockWriters \cup LockReaders : op' = [op EXCEPT ![c] = o]
    /\ Step(c, "lock")
    /\ UNCHANGED <<mgc, native, finalizer, phase, env, build, last, rw>>

\* mgc.Lock(), first half: the writers' mutex is free, the writer is announced
LAnnounce(c) ==
    /\ pc[c] = "lock"
    /\ op[c] \in LockWriters
    /\ rw.writer = 0 /\ Pending = {}
    /\ Step(c, "wait")
    /\ UNCHANGED <<mgc, native, finalizer, phase, env, build, last, rw, op>>

\* mgc.Lock(), second half: the readers have left
LLock(c) ==
    /\ pc[c] = "wait"
    /\ rw.readers = {}
    /\ rw' = [rw EXCEPT !.writer = c]
    /\ Step(c, "held")
    /\ UNCHANGED <<mgc, native, finalizer, phase, env, build, last, op>>

\* mgc.RLock() of IsOpen, HasLoaded and String
LRLock(c) ==
    /\ pc[c] = "lock"
    /\ op[c] \in LockReaders
    /\ RLockGranted
    /\ rw' = [rw EXCEPT !.readers = @ \cup {c}]
    /\ Step(c, "held")
    /\ UNCHANGED <<mgc, native, finalizer, phase, env, build, last, op>>

\* String, holding RLock, calls IsOpen and then HasLoaded: their mgc.RLock()
LNestedRLock(c) ==
    /\ op[c] = "String"
    /\ pc[c] \in {"held", "held2"}
    /\ RLockGranted
    /\ Step(c, IF pc[c] = "held" THEN "in1" ELSE "in2")
    /\ UNCHANGED <<mgc, native, finalizer, phase, env, build, last, rw, op>>

\* the deferred mgc.RUnlock() of IsOpen / HasLoaded called from String; String
\* still holds its own RLock
LNestedRUnlock(c) ==
    /\ op[c] = "String"
    /\ pc[c] \in {"in1", "in2"}
    /\ Step(c, IF pc[c] = "in1" THEN "held2" ELSE "unlock")
    /\ UNCHANGED <<mgc, native, finalizer, phase, env, build, last, rw, op>>

\* The body of every other method, under its lock.
LReturn(c) ==
    /\ pc[c] = "held"
    /\ op[c] # "String"
    /\ \E r \in LockReturns(op[c]) : mgc' = r.m /\ native' = r.n
    /\ finalizer' = IF op[c] = "Close" THEN FALSE ELSE finalizer
    /\ Step(c, "unlock")
    /\ UNCHANGED <<phase, env, build, last, rw, op>>

NextLock ==
    \/ NewDefault
    \/ \E c \in Callers :
         LBegin(c) \/ LAnnounce(c) \/ LLock(c) \/ LRLock(c) \/ LNestedRLock(c)
         \/ LNestedRUnlock(c) \/ LReturn(c) \/ CUnlock(c)

SpecLock == InitDefault /\ [][NextLock]_vars

\* The caller waits for the lock and cannot get it as things stand.
Blocked(c) ==
    \/ pc[c] = "lock" /\ op[c] \in LockReaders /\ ~RLockGranted
    \/ pc[c] = "lock" /\ op[c] \in LockWriters /\ ~(rw.writer = 0 /\ Pending = {})
    \/ pc[c] = "wait" /\ rw.readers # {}
    \/ pc[c] \in {"held", "held2"} /\ op[c] = "String" /\ ~RLockGranted

\* C37: no deadlock is reachable on a session's lock: the callers are never all
\* waiting for it with none able to get it.
NoLockDeadlock == ~(\A c \in Callers : Blocked(c))

-----------------------------------------------------------------------------
(* The result of Descriptor on an open descriptor (SpecFd). *)

\* C38: when the descriptor passed to Descriptor is open and the native query
\* returns a result that is neither empty nor a sentinel, Descriptor returns
\* that result and no error, also where libmagic closes the duplicate it is
\* given.
DescriptorReturnsResult ==
    (DescriptorRan /\ last.list[1].wasOpen /\ last.nres \notin Sentinels \cup {CNULL}) =>
        (last.err = NoError /\ last.str = last.nres)

-----------------------------------------------------------------------------
(* The descriptors of the redirection (SpecErr). *)

\* C39: over a suppress_error_output / restore_error_output pair every
\* descriptor the pair creates is closed by the time the pair has finished, so
\* the open descriptors are those of before, and restore_error_output is never
\* handed a descriptor that was closed already, wherever the suppression failed.
RedirectionClosesItsDescriptors ==
    ShimReturned => (env.fds = last.list[1].fds /\ ~last.list[1].stale)

====
